---- MODULE Spec2Model ----
(***************************************************************************)
(* Model of rspack_core's ExternalModule (external_module.rs): the         *)
(* construction of external entities, their identity / equality / hash,    *)
(* and the per-linkage code generation (get_source, code_generation).      *)
(*                                                                         *)
(* Texts are sequences of tokens.  A token is a TLA+ string; every         *)
(* character of a request or of a graph id is a token of its own, and so   *)
(* is every quote character of a template, so that "the text contains the  *)
(* string literal L" is a statement about sub-sequences.  Render turns a   *)
(* text into the string the program would emit.                            *)
(***************************************************************************)
EXTENDS Naturals, Sequences, FiniteSets, TLC

VARIABLES modules, compilation, results, registry, merged, fresh, regenerated

vars == <<modules, compilation, results, registry, merged, fresh, regenerated>>

\* ------------------------------------------------------------------ bounds

\* Longest request drawn for the single-entity specification.
MaxLen == 2
\* Longest graph id the id resolver hands out.
MaxIdLen == 1
\* Number of external entities alive in the interleaving specification.
MaxModules == 2

\* ------------------------------------------------------------ input sets

\* Characters a request is made of: a letter, the two quote characters and
\* the backslash.
Chars == {"a", "'", "\"", "\\"}

\* Characters a graph id is made of: one that is legal in an identifier and
\* one that is not.
IdChars == {"m", "-"}

SeqsUpTo(S, n) == UNION {[1..k -> S] : k \in 0..n}

Requests == SeqsUpTo(Chars, MaxLen)

\* Requests of the interleaving specification.
SharedRequests == {<<"a">>, <<"'">>}

UserRequests == {<<"a">>, <<"u">>}

GraphIds == SeqsUpTo(IdChars, MaxIdLen) \ {<<>>}

\* Graph ids of the interleaving specification.
SharedIds == {<<"m">>, <<"-">>}

RecognizedTypes ==
    {"this", "window", "self", "global",
     "commonjs", "commonjs2", "commonjs-module", "commonjs-static",
     "node-commonjs",
     "amd", "amd-require", "umd", "umd2", "system", "jsonp",
     "import",
     "var", "promise", "const", "let", "assign",
     "module", "asset", "css-import"}

\* Every tag the dispatch names, plus two it does not.
ExternalTypes == RecognizedTypes \cup {"script", "unknown"}

\* Tags of the interleaving specification: the arms that read the graph id
\* or the ES-module flag, or write a side request.
SharedTypes == {"node-commonjs", "amd", "module"}

GlobalObjects == {"self", "globalThis"}

ImportFunctionNames == {"import", "__import__"}

\* ------------------------------------------------------------------ texts

RECURSIVE Render(_)
Render(text) == IF text = <<>> THEN "" ELSE Head(text) \o Render(Tail(text))

\* text has sub as a contiguous sub-sequence.
Contains(text, sub) ==
    \E i \in 0..(Len(text) - Len(sub)) :
        \A j \in 1..Len(sub) : text[i + j] = sub[j]

\* ------------------------------------------------------- collaborators

\* A map (HashMap / entry().or_insert): a function on a finite set of keys.
EmptyMap == [k \in {} |-> <<>>]

insert(map, key, value) ==
    [k \in (DOMAIN map) \cup {key} |-> IF k = key THEN value ELSE map[k]]

or_insert(map, key, value) ==
    IF key \in DOMAIN map THEN map ELSE insert(map, key, value)

Ok(v) == [ok |-> TRUE, value |-> v]

Err(e) == [ok |-> FALSE, error |-> e]

STAGE_HARMONY_IMPORTS == "STAGE_HARMONY_IMPORTS"

\* The runtime-global flag, which formats as the name of the helper.
DEFINE_PROPERTY_GETTERS == "__webpack_require__.d"

InitFragment_new(content, stage, end_content) ==
    [content |-> content, stage |-> stage, end_content |-> end_content]

\* serde_json::to_string of a string: the string between double quotes,
\* with the double quote and the backslash escaped by a backslash.  It does
\* not fail on a string.
RECURSIVE json_escape(_)
json_escape(s) ==
    IF s = <<>> THEN <<>>
    ELSE (IF Head(s) \in {"\"", "\\"} THEN <<"\\", Head(s)>> ELSE <<Head(s)>>)
         \o json_escape(Tail(s))

serde_json_to_string(s) == Ok(<<"\"">> \o json_escape(s) \o <<"\"">>)

\* Characters that may stand in an identifier, among those the model draws.
IdentifierChars == {"a", "m", "u", "_", "$"}

\* to_identifier: every character that may not stand in an identifier is
\* replaced by an underscore.
to_identifier(v) ==
    [i \in 1..Len(v) |-> IF v[i] \in IdentifierChars THEN v[i] ELSE "_"]

\* ------------------------------------------------------------ the entity

\* Mutant: the identity is derived from the alias the entity was reached by.
new_identity_of_user_request(request, external_type, user_request) ==
    [id |-> "external " \o external_type \o " " \o Render(user_request),
     request |-> request,
     external_type |-> external_type,
     user_request |-> user_request]

new(request, external_type, user_request) ==
    [id |-> "external " \o external_type \o " " \o Render(request),
     request |-> request,
     external_type |-> external_type,
     user_request |-> user_request]

identifier(self) == self.id

\* impl Hash: what is fed to the hasher.
hash(self) == <<"__rspack_internal__ExternalModule", identifier(self)>>

\* impl PartialEq.
eq(self, other) == identifier(self) = identifier(other)

source_types(self) ==
    IF self.external_type = "css-import" THEN {"Css"} ELSE {"JavaScript"}

lib_ident(self) == self.user_request

readable_identifier(self) == <<"external ">> \o self.request

\* ------------------------------------------------------------ get_source

get_source_for_commonjs(self) ==
    <<"module.exports = require(", "'">> \o self.request \o <<"'", ")">>

get_source_for_import(self, comp) ==
    <<"module.exports = " \o comp.import_function_name \o "(", "'">>
        \o self.request \o <<"'", ")">>

\* Mutant: a missing graph id is not defaulted to the empty id.
module_id_undefined(self, comp) ==
    IF self.id \in DOMAIN comp.module_ids
    THEN comp.module_ids[self.id]
    ELSE <<"u">>

\* module_graph_module_by_identifier(..).map(|m| m.id(..)).unwrap_or_default()
module_id(self, comp) ==
    IF identifier(self) \in DOMAIN comp.module_ids
    THEN comp.module_ids[identifier(self)]
    ELSE <<>>

SourceOnly(source) ==
    [source |-> source,
     chunk_init_fragments |-> EmptyMap,
     runtime_requirements |-> {}]

\* Mutant: the createRequire fragment is keyed per request.
get_source_node_commonjs_key_per_request(self, comp) ==
    IF comp.module
    THEN [source |->
              <<"__WEBPACK_EXTERNAL_createRequire(import.meta.url)(", "'">>
                  \o self.request \o <<"'", ")">>,
          chunk_init_fragments |->
              or_insert(EmptyMap,
                  "external module node-commonjs" \o Render(self.request),
                  InitFragment_new(
                      <<"import { createRequire as __WEBPACK_EXTERNAL_createRequire } from ",
                        "'", "module", "'", ";\n">>,
                      STAGE_HARMONY_IMPORTS, "None")),
          runtime_requirements |-> {}]
    ELSE SourceOnly(get_source_for_commonjs(self))

get_source_node_commonjs(self, comp) ==
    IF comp.module
    THEN [source |->
              <<"__WEBPACK_EXTERNAL_createRequire(import.meta.url)(", "'">>
                  \o self.request \o <<"'", ")">>,
          chunk_init_fragments |->
              or_insert(EmptyMap, "external module node-commonjs",
                  InitFragment_new(
                      <<"import { createRequire as __WEBPACK_EXTERNAL_createRequire } from ",
                        "'", "module", "'", ";\n">>,
                      STAGE_HARMONY_IMPORTS, "None")),
          runtime_requirements |-> {}]
    ELSE SourceOnly(get_source_for_commonjs(self))

get_source_amd(self, comp) ==
    LET id == module_id(self, comp) IN
    SourceOnly(<<"module.exports = ", "__WEBPACK_EXTERNAL_MODULE_">>
                   \o to_identifier(id) \o <<"__">>)

\* Mutant: the module arm takes the ES-module path whatever the output is.
get_source_module_always_esm(self, comp) ==
    LET ident == to_identifier(module_id(self, comp)) IN
    [source |->
         <<"var x = y => { var x = {}; ", DEFINE_PROPERTY_GETTERS,
           "(x, y); return x; }", "\n            ",
           "var y = x => () => x", "\n            ",
           "module.exports = ", "__WEBPACK_EXTERNAL_MODULE_">>
             \o ident \o <<"__">>,
     chunk_init_fragments |->
         or_insert(EmptyMap,
             "external module import " \o Render(ident),
             InitFragment_new(
                 <<"import * as ", "__WEBPACK_EXTERNAL_MODULE_">>
                     \o ident \o <<"__", " from ", "'">>
                     \o self.request \o <<"'", ";\n">>,
                 STAGE_HARMONY_IMPORTS, "None")),
     runtime_requirements |-> {DEFINE_PROPERTY_GETTERS}]

\* Mutant: the module arm forgets to request the runtime-global.
get_source_module_no_runtime_requirement(self, comp) ==
    IF comp.module
    THEN [get_source_module_always_esm(self, comp)
              EXCEPT !.runtime_requirements = {}]
    ELSE SourceOnly(get_source_for_import(self, comp))

get_source_module(self, comp) ==
    IF comp.module
    THEN LET id == module_id(self, comp)
             ident == to_identifier(id)
         IN [source |->
                 <<"var x = y => { var x = {}; ", DEFINE_PROPERTY_GETTERS,
                   "(x, y); return x; }", "\n            ",
                   "var y = x => () => x", "\n            ",
                   "module.exports = ", "__WEBPACK_EXTERNAL_MODULE_">>
                     \o ident \o <<"__">>,
             chunk_init_fragments |->
                 or_insert(EmptyMap,
                     "external module import " \o Render(ident),
                     InitFragment_new(
                         <<"import * as ", "__WEBPACK_EXTERNAL_MODULE_">>
                             \o ident \o <<"__", " from ", "'">>
                             \o self.request \o <<"'", ";\n">>,
                         STAGE_HARMONY_IMPORTS, "None")),
             runtime_requirements |-> {DEFINE_PROPERTY_GETTERS}]
    ELSE SourceOnly(get_source_for_import(self, comp))

\* Mutant: an unrecognized tag is treated as CommonJS.
get_source_fallback_commonjs(self) == SourceOnly(get_source_for_commonjs(self))

\* The fallback arm (TODO "script").
get_source_fallback(self) == SourceOnly(<<>>)

get_source(self, comp) ==
    LET t == self.external_type IN
    CASE t = "this" ->
           SourceOnly(<<"module.exports = (function() { return this[", "'">>
                          \o self.request \o <<"'", "]; }())">>)
      [] t \in {"window", "self"} ->
           SourceOnly(<<"module.exports = " \o t \o "[", "'">>
                          \o self.request \o <<"'", "]">>)
      [] t = "global" ->
           SourceOnly(<<"module.exports = " \o comp.global_object \o "[", "'">>
                          \o self.request \o <<"'", "]">>)
      [] t \in {"commonjs", "commonjs2", "commonjs-module", "commonjs-static"} ->
           SourceOnly(get_source_for_commonjs(self))
      [] t = "node-commonjs" -> get_source_node_commonjs(self, comp)
      [] t \in {"amd", "amd-require", "umd", "umd2", "system", "jsonp"} ->
           get_source_amd(self, comp)
      [] t = "import" -> SourceOnly(get_source_for_import(self, comp))
      [] t \in {"var", "promise", "const", "let", "assign"} ->
           SourceOnly(<<"module.exports = ">> \o self.request)
      [] t = "module" -> get_source_module(self, comp)
      [] OTHER -> get_source_fallback(self)

\* ------------------------------------------------------- code_generation

CodeGenerationResult_default ==
    [inner |-> EmptyMap,
     data |-> EmptyMap,
     chunk_init_fragments |-> EmptyMap,
     runtime_requirements |-> {},
     hash |-> <<>>]

\* CodeGenerationResult::set_hash: a hash of the finalized content, taken
\* here as the content itself.  An Option is a sequence of length 0 or 1.
set_hash(cgr) ==
    [cgr EXCEPT !.hash = <<[inner |-> cgr.inner,
                             chunk_init_fragments |-> cgr.chunk_init_fragments,
                             runtime_requirements |-> cgr.runtime_requirements]>>]

code_generation_asset(self) ==
    LET enc == serde_json_to_string(self.request) IN
    IF ~enc.ok THEN Err("internal_error")
    ELSE Ok([CodeGenerationResult_default EXCEPT
                !.inner = insert(@, "JavaScript",
                              <<"module.exports = ">> \o enc.value \o <<";">>),
                !.data = insert(@, "url", self.request)])

\* Mutant: the @import rule is written into the script slot.
code_generation_css_import_script_slot(self) ==
    LET enc == serde_json_to_string(self.request) IN
    IF ~enc.ok THEN Err("internal_error")
    ELSE Ok([CodeGenerationResult_default EXCEPT
                !.inner = insert(@, "JavaScript",
                              <<"@import url(">> \o enc.value \o <<");">>)])

code_generation_css_import(self) ==
    LET enc == serde_json_to_string(self.request) IN
    IF ~enc.ok THEN Err("internal_error")
    ELSE Ok([CodeGenerationResult_default EXCEPT
                !.inner = insert(@, "Css",
                              <<"@import url(">> \o enc.value \o <<");">>)])

\* Mutant: the fragments are accumulated on top of the shared registry
\* instead of a map of the call's own.
code_generation_default_shared_fragments(self, comp) ==
    LET got == get_source(self, comp)
        shared == [k \in {registry[i].key : i \in 1..Len(registry)} |->
                      (CHOOSE e \in {registry[i] : i \in 1..Len(registry)} :
                           e.key = k).fragment]
        frags == [k \in (DOMAIN shared) \cup (DOMAIN got.chunk_init_fragments) |->
                     IF k \in DOMAIN shared THEN shared[k]
                     ELSE got.chunk_init_fragments[k]]
    IN Ok(set_hash([CodeGenerationResult_default EXCEPT
                       !.inner = insert(@, "JavaScript", got.source),
                       !.chunk_init_fragments = frags,
                       !.runtime_requirements = @ \cup got.runtime_requirements]))

code_generation_default(self, comp) ==
    LET got == get_source(self, comp) IN
    Ok(set_hash([CodeGenerationResult_default EXCEPT
                    !.inner = insert(@, "JavaScript", got.source),
                    !.chunk_init_fragments = got.chunk_init_fragments,
                    !.runtime_requirements = @ \cup got.runtime_requirements]))

code_generation(self, comp) ==
    CASE self.external_type = "asset" -> code_generation_asset(self)
      [] self.external_type = "css-import" -> code_generation_css_import(self)
      [] OTHER -> code_generation_default(self, comp)

\* ---------------------------------------------------- the state machine

\* The shared, per-chunk fragment registry: the entries in insertion order.
\* Merging a result's fragments is insert-if-absent on the key.
RECURSIVE merge_init_fragments(_, _)
merge_init_fragments(reg, frags) ==
    IF DOMAIN frags = {} THEN reg
    ELSE LET k == CHOOSE x \in DOMAIN frags : TRUE
             rest == [x \in (DOMAIN frags) \ {k} |-> frags[x]]
         IN merge_init_fragments(
                IF \E i \in 1..Len(reg) : reg[i].key = k
                THEN reg
                ELSE Append(reg, [key |-> k, fragment |-> frags[k]]),
                rest)

CompilationOptions ==
    [global_object : GlobalObjects,
     module : BOOLEAN,
     import_function_name : ImportFunctionNames,
     module_ids : {EmptyMap}]

AssignedIds == {compilation.module_ids[i] : i \in DOMAIN compilation.module_ids}

\* No entity yet.  No tag of SharedTypes reads the global-object name, so
\* the interleaving specification does not vary it.
Init ==
    /\ modules = {}
    /\ compilation \in {c \in CompilationOptions : c.global_object = "self"}
    /\ results = EmptyMap
    /\ registry = <<>>
    /\ merged = {}
    /\ fresh = {}
    /\ regenerated = {}

\* ExternalModule::new, and the entity joining the compilation.
NewModule(request, external_type, user_request) ==
    LET m == new(request, external_type, user_request) IN
    /\ Cardinality(modules) < MaxModules
    /\ m \notin modules
    /\ modules' = modules \cup {m}
    /\ results' = [x \in modules' |-> IF x \in modules THEN results[x] ELSE <<>>]
    /\ UNCHANGED <<compilation, registry, merged, fresh, regenerated>>

\* The id resolver gives the entity's identity its graph id, once.  The
\* snapshot changes: no kept result is of the current snapshot any more.
AssignModuleId(m, id) ==
    /\ identifier(m) \notin DOMAIN compilation.module_ids
    /\ id \notin AssignedIds
    /\ compilation' =
           [compilation EXCEPT !.module_ids = insert(@, identifier(m), id)]
    /\ fresh' = {}
    /\ regenerated' = {}
    /\ merged' = {}
    /\ UNCHANGED <<modules, results, registry>>

\* One call of code_generation; the driver keeps the latest result of each
\* entity.  fresh holds the entities whose kept result was generated under
\* the current snapshot, regenerated those generated more than once under it.
CodeGeneration(m) ==
    /\ results' = [results EXCEPT ![m] = <<code_generation(m, compilation)>>]
    /\ fresh' = fresh \cup {m}
    /\ regenerated' = IF m \in fresh THEN regenerated \cup {m} ELSE regenerated
    /\ merged' = merged \ {m}
    /\ UNCHANGED <<modules, compilation, registry>>

\* Chunk rendering merges the fragments of a result generated under the
\* current snapshot into the registry.  merged holds the entities whose kept
\* result has been merged.
MergeInitFragments(m) ==
    /\ m \in fresh
    /\ results[m][1].ok
    /\ registry' = merge_init_fragments(registry,
                       results[m][1].value.chunk_init_fragments)
    /\ merged' = merged \cup {m}
    /\ UNCHANGED <<modules, compilation, results, fresh, regenerated>>

Next ==
    \/ \E r \in SharedRequests, t \in SharedTypes : NewModule(r, t, r)
    \/ \E m \in modules, id \in SharedIds : AssignModuleId(m, id)
    \/ \E m \in modules : CodeGeneration(m)
    \/ \E m \in modules : MergeInitFragments(m)

Spec == Init /\ [][Next]_vars

\* One entity, of any tag and any request, under any compilation options.
InitGen ==
    /\ \E r \in Requests, t \in ExternalTypes, u \in UserRequests :
           modules = {new(r, t, u)}
    /\ compilation \in CompilationOptions
    /\ results = [x \in modules |-> <<>>]
    /\ registry = <<>>
    /\ merged = {}
    /\ fresh = {}
    /\ regenerated = {}

NextGen ==
    \/ \E m \in modules, id \in GraphIds : AssignModuleId(m, id)
    \/ \E m \in modules : CodeGeneration(m)
    \/ \E m \in modules : MergeInitFragments(m)

SpecGen == InitGen /\ [][NextGen]_vars

\* Construction alone: entities of every tag, reached under two aliases.
NextNew ==
    \E r \in SharedRequests, t \in ExternalTypes, u \in UserRequests :
        NewModule(r, t, u)

SpecNew == Init /\ [][NextNew]_vars

\* ------------------------------------------------------------ the claims

Generated(m) == results[m] # <<>>

\* The kept Result of an entity (Ok or Err), and its script text.
ResultOf(m) == results[m][1]

ScriptOf(m) == ResultOf(m).value.inner["JavaScript"]

HasId(m) == identifier(m) \in DOMAIN compilation.module_ids

\* C1: the identity of an entity built by new is a function of
\* (linkage_type, request) only: entities with the same tag and request have
\* the same identity, compare equal and hash equally whatever their
\* user_request, and equality and hash follow the identity alone.
C1_IdentityOfTypeAndRequest ==
    \A a, b \in modules :
        /\ (a.external_type = b.external_type /\ a.request = b.request)
               => /\ identifier(a) = identifier(b)
                  /\ eq(a, b)
                  /\ hash(a) = hash(b)
        /\ eq(a, b) <=> identifier(a) = identifier(b)
        /\ hash(a) = hash(b) <=> identifier(a) = identifier(b)

C1_Witness ==
    \E a, b \in modules :
        /\ a.external_type = b.external_type
        /\ a.request = b.request
        /\ a.user_request # b.user_request
        /\ eq(a, b)

NodeCommonjsKey == "external module node-commonjs"

KeyCount(k) == Cardinality({i \in 1..Len(registry) : registry[i].key = k})

IsEsmNodeCommonjs(m) == m.external_type = "node-commonjs" /\ compilation.module

\* C3: after any sequence of generations merged insert-if-absent into one
\* registry, the key "external module node-commonjs" occurs exactly once as
\* soon as one node-commonjs entity of an ES-module output was merged (and
\* never twice), its fragment is the createRequire import line at the
\* import-hoisting stage, and node-commonjs entities with different requests
\* have different script outputs.
C3_OneNodeCommonjsFragment ==
    /\ KeyCount(NodeCommonjsKey) <= 1
    /\ (\E m \in merged : IsEsmNodeCommonjs(m)) => KeyCount(NodeCommonjsKey) = 1
    /\ \A i \in 1..Len(registry) :
           registry[i].key = NodeCommonjsKey
               => /\ Render(registry[i].fragment.content) =
                        "import { createRequire as __WEBPACK_EXTERNAL_createRequire } from 'module';\n"
                  /\ registry[i].fragment.stage = STAGE_HARMONY_IMPORTS
    /\ \A a, b \in fresh :
           (IsEsmNodeCommonjs(a) /\ IsEsmNodeCommonjs(b) /\ a.request # b.request)
               => Render(ScriptOf(a)) # Render(ScriptOf(b))

C3_Witness ==
    \E a, b \in merged :
        /\ IsEsmNodeCommonjs(a)
        /\ IsEsmNodeCommonjs(b)
        /\ a.request # b.request
        /\ KeyCount(NodeCommonjsKey) = 1
        /\ Len(registry) = 1

\* Tags whose template embeds the request as a string literal.
LiteralTypes ==
    {"this", "window", "self", "global",
     "commonjs", "commonjs2", "commonjs-module", "commonjs-static",
     "node-commonjs", "import", "module", "asset", "css-import"}

\* Every text a result carries: the output slots and the fragments.
TextsOf(cgr) ==
    {cgr.inner[k] : k \in DOMAIN cgr.inner}
        \cup {cgr.chunk_init_fragments[k].content :
                  k \in DOMAIN cgr.chunk_init_fragments}

\* C4: for every tag whose template embeds the request as a string literal,
\* the generated text contains the JSON string encoding of the request.
C4_RequestLiteralJsonEncoded ==
    \A m \in modules :
        (Generated(m) /\ m.external_type \in LiteralTypes)
            => /\ ResultOf(m).ok
               /\ \E t \in TextsOf(ResultOf(m).value) :
                      Contains(t, serde_json_to_string(m.request).value)

\* C5: for every tag outside the recognized set, generation succeeds with
\* an empty script output, no runtime-globals and no init fragments.
C5_UnrecognizedTagEmpty ==
    \A m \in modules :
        (Generated(m) /\ m.external_type \notin RecognizedTypes)
            => /\ ResultOf(m).ok
               /\ DOMAIN ResultOf(m).value.inner = {"JavaScript"}
               /\ Render(ScriptOf(m)) = ""
               /\ ResultOf(m).value.runtime_requirements = {}
               /\ DOMAIN ResultOf(m).value.chunk_init_fragments = {}

C5_Witness ==
    \E m \in modules : Generated(m) /\ m.external_type = "script"

\* C6: with ES-module output disabled, a module-linkage entity generates
\* the same script text, init fragments (none) and runtime-globals (none) as
\* an import-linkage entity with the same request.
C6_ModuleLikeImport ==
    \A m \in modules :
        (m \in fresh /\ m.external_type = "module" /\ ~compilation.module)
            => LET imp == code_generation(
                              new(m.request, "import", m.user_request),
                              compilation)
               IN /\ ResultOf(m).ok /\ imp.ok
                  /\ ResultOf(m).value.inner = imp.value.inner
                  /\ DOMAIN ResultOf(m).value.chunk_init_fragments = {}
                  /\ DOMAIN imp.value.chunk_init_fragments = {}
                  /\ ResultOf(m).value.runtime_requirements = {}
                  /\ imp.value.runtime_requirements = {}

C6_Witness ==
    \E m \in modules :
        /\ m \in fresh
        /\ m.external_type = "module"
        /\ ~compilation.module
        /\ m.request # <<>>

\* C7: a result fills exactly one output-kind slot, the kind source_types
\* declares: the stylesheet slot if and only if the tag is css-import, the
\* script slot otherwise; asset and css-import results have no init
\* fragments and no runtime-globals; only asset writes auxiliary data,
\* namely "url" mapped to the request verbatim.
C7_OneSlotOfDeclaredKind ==
    \A m \in modules :
        Generated(m)
            => LET cgr == ResultOf(m).value IN
               /\ ResultOf(m).ok
               /\ DOMAIN cgr.inner = source_types(m)
               /\ Cardinality(DOMAIN cgr.inner) = 1
               /\ (DOMAIN cgr.inner = {"Css"}) <=> (m.external_type = "css-import")
               /\ (m.external_type \in {"asset", "css-import"})
                      => /\ DOMAIN cgr.chunk_init_fragments = {}
                         /\ cgr.runtime_requirements = {}
               /\ (m.external_type = "asset")
                      => (DOMAIN cgr.data = {"url"} /\ cgr.data["url"] = m.request)
               /\ (m.external_type # "asset") => DOMAIN cgr.data = {}

C7_Witness ==
    \E m \in modules :
        /\ Generated(m)
        /\ m.external_type = "asset"
        /\ m.request = <<"a", "\"">>
        /\ Render(ScriptOf(m)) = "module.exports = \"a\\\"\";"

\* The expression the snippet assigns to module.exports: the tokens after
\* the last "module.exports = ".
ExportedExpression(text) ==
    LET at == CHOOSE i \in 1..Len(text) :
                  /\ text[i] = "module.exports = "
                  /\ \A j \in (i + 1)..Len(text) : text[j] # "module.exports = "
    IN SubSeq(text, at + 1, Len(text))

NamespaceVariable(ident) == <<"__WEBPACK_EXTERNAL_MODULE_">> \o ident \o <<"__">>

IsEsmModule(m) ==
    m \in fresh /\ m.external_type = "module" /\ compilation.module

\* The part of C8 about the side requests: one import-hoisting fragment
\* importing the request as the namespace variable, and exactly the
\* define-property-getters runtime-global.
EsmModuleSideRequests(m) ==
    LET cgr == ResultOf(m).value
        ident == to_identifier(module_id(m, compilation))
        key == "external module import " \o Render(ident)
    IN /\ ResultOf(m).ok
       /\ DOMAIN cgr.chunk_init_fragments = {key}
       /\ cgr.chunk_init_fragments[key].stage = STAGE_HARMONY_IMPORTS
       /\ Render(cgr.chunk_init_fragments[key].content) =
              "import * as " \o Render(NamespaceVariable(ident)) \o " from '"
                  \o Render(m.request) \o "';\n"
       /\ cgr.runtime_requirements = {DEFINE_PROPERTY_GETTERS}

AmdTypes == {"amd", "amd-require", "umd", "umd2", "system", "jsonp"}

\* C9: for amd, amd-require, umd, umd2, system and jsonp, generation
\* succeeds whether or not the graph id is assigned: a result generated
\* before the assignment is `module.exports = __WEBPACK_EXTERNAL_MODULE___`,
\* one generated after it is
\* `module.exports = __WEBPACK_EXTERNAL_MODULE_<sanitized id>__`; either way
\* there is no init fragment, no runtime-global and nothing but the
\* reference in the snippet.
C9_GraphIdDefaultsToEmpty ==
    \A m \in modules :
        (Generated(m) /\ m.external_type \in AmdTypes)
            => /\ ResultOf(m).ok
               /\ DOMAIN ResultOf(m).value.inner = {"JavaScript"}
               /\ DOMAIN ResultOf(m).value.chunk_init_fragments = {}
               /\ ResultOf(m).value.runtime_requirements = {}
               /\ (~HasId(m) \/ m \notin fresh)
                      => Render(ScriptOf(m)) =
                             "module.exports = __WEBPACK_EXTERNAL_MODULE___"
               /\ (HasId(m) /\ m \in fresh)
                      => Render(ScriptOf(m)) =
                             "module.exports = __WEBPACK_EXTERNAL_MODULE_"
                                 \o Render(to_identifier(
                                        compilation.module_ids[identifier(m)]))
                                 \o "__"

C9_Witness ==
    \E m \in modules :
        /\ m.external_type \in AmdTypes
        /\ Generated(m)
        /\ m \notin fresh
        /\ HasId(m)
        /\ Render(ScriptOf(m)) = "module.exports = __WEBPACK_EXTERNAL_MODULE___"

\* C10: for two entities generated under the same snapshot with ES-module
\* output, init fragments with the same key have the same content, also
\* when neither entity has a graph id yet.
C10_KeysDetermineContent ==
    \A a, b \in fresh :
        compilation.module
            => LET fa == ResultOf(a).value.chunk_init_fragments
                   fb == ResultOf(b).value.chunk_init_fragments
               IN \A k \in (DOMAIN fa) \cap (DOMAIN fb) : fa[k] = fb[k]

====
